---- MODULE Spec2Model ----
(***************************************************************************)
(* Manual-processing service: the PDF ingestion pipeline                   *)
(* (PDFProcessor.process_pdf_file), its in-memory job registry, the        *)
(* upload/status endpoints that drive it and the dual-store write of       *)
(* ContentManager.store_content_chunk.                                     *)
(*                                                                         *)
(* Abstractions.  Text is represented by its length: a page is the length  *)
(* of its stripped raw text plus the lengths of the paragraphs that        *)
(* clean_text leaves.  Scores are hundredths (0.3 is 30), progress is      *)
(* hundredths of a percent (95.0 is 9500, floor of the float).  A          *)
(* timestamp or a uuid4 is named by the call that produced it (the run and *)
(* the place in it), so two calls never give the same value; 0 is None.    *)
(* A ProcessingJob is an object on a heap; the registry maps job ids to    *)
(* object references (0 is None).                                          *)
(*                                                                         *)
(* Scheduling.  The coroutines run on one event loop, so a run is          *)
(* interleaved with the other runs and with the request handlers only      *)
(* where it suspends: before it starts, at each store_content_chunk call   *)
(* and at the duplicate query.  An action is the code from one suspension  *)
(* point to the next; the stages inside it are operators on a frame (the   *)
(* job object, the run's locals, the processor's embedding model).         *)
(***************************************************************************)
EXTENDS Integers, Sequences, FiniteSets, TLC

\* ---- bounds ----
MaxRuns == 2       \* process_pdf_file invocations in one behaviour
MaxPages == 2      \* pages of one document
\* the configured batch size (default 32, settings.py), set so that the chunks
\* of a MaxPages document span more than one batch
EMBEDDING_BATCH_SIZE == 2

\* ---- settings (config/settings.py) ----
MAX_CHUNK_SIZE == 1000
CHUNK_OVERLAP == 200
MIN_TEXT_LENGTH == 50
MIN_READABILITY_SCORE == 30

Runs == 1..MaxRuns
Procs == 1..MaxRuns
JobIds == 1..MaxRuns
Paths == 1..MaxRuns
None == "None"      \* None where the value is a string
\* (None is 0 where the value is a timestamp or an object reference)
NoneDict == [none |-> TRUE]     \* None where the value is a dict or a row

\* values calculate_readability_score is taken to return on chunk contents
Scores == {29, 30}

\* a page of a document: extract_text raises, or returns text
PageKinds ==
  { [raises |-> TRUE,  raw_len |-> 0,    paras |-> <<>>],
    [raises |-> FALSE, raw_len |-> 0,    paras |-> <<>>],
    [raises |-> FALSE, raw_len |-> 10,   paras |-> <<10>>],
    [raises |-> FALSE, raw_len |-> 60,   paras |-> <<40>>],
    [raises |-> FALSE, raw_len |-> 1010, paras |-> <<10, 995>>] }

Docs == UNION { [1..n -> PageKinds] : n \in 1..MaxPages }

VARIABLES
  nproc,      \* PDFProcessor instances constructed so far
  jobs,       \* jobs[p][j]: PDFProcessor.jobs of processor p (0: no entry)
  heap,       \* the ProcessingJob objects
  model,      \* model[p]: processor p's embedding_model is loaded
  runs,       \* the process_pdf_file invocations: position, locals, history
  files,      \* paths that exist in the upload directory
  db,         \* structured store: the ManualContent rows
  vec,        \* vector store: ids of the entries of the collection
  reply,      \* what the last status or search request returned
  ops,        \* the ContentManager calls made on their own: position, outcome
  chunker,    \* a _chunk_text call on its own: the text and what it returned
  dupcheck,   \* a check_for_duplicates call on its own: the rows, the result
  pure        \* a pure function called on its own: arguments and result

vars == <<nproc, jobs, heap, model, runs, files, db, vec, reply,
          ops, chunker, dupcheck, pure>>

\* the variables the pipeline and the registry leave alone
apart == <<ops, chunker, dupcheck, pure>>

Min(a, b) == IF a < b THEN a ELSE b

ProcessingJob(job_id, filename, now) ==
  [ job_id |-> job_id, filename |-> filename, status |-> "queued",
    progress_percent |-> 0, created_at |-> now,
    completed_at |-> 0, error_details |-> None ]

NoRun ==
  [ pc |-> "new", proc |-> 0, job_id |-> 0, file_path |-> 0, job |-> 0,
    pages |-> <<>>, extracted |-> <<>>, pages_text |-> <<>>,
    all_chunks |-> <<>>, i |-> 0, k |-> 0, processed_count |-> 0,
    calls |-> <<>>, encoded |-> 0, unlink |-> None, raised |-> None,
    result |-> None ]

Init ==
  /\ nproc = 0
  /\ jobs = [p \in Procs |-> [j \in JobIds |-> 0]]
  /\ heap = <<>>
  /\ model = [p \in Procs |-> FALSE]
  /\ runs = [r \in Runs |-> NoRun]
  /\ files = {}
  /\ db = {}
  /\ vec = {}
  /\ reply = [op |-> "none"]
  /\ ops = <<>>
  /\ chunker = [called |-> FALSE]
  /\ dupcheck = [called |-> FALSE]
  /\ pure = [called |-> FALSE]

\* ---- the job object and the registry ----

\* PDFProcessor.get_job_status: the snapshot of the registered job, or None
get_job_status(registry, j) ==
  IF registry[j] = 0 THEN NoneDict
  ELSE [ job_id |-> heap[registry[j]].job_id,
         status |-> heap[registry[j]].status,
         filename |-> heap[registry[j]].filename,
         progress_percent |-> heap[registry[j]].progress_percent,
         created_at |-> heap[registry[j]].created_at,
         completed_at |-> heap[registry[j]].completed_at,
         error_details |-> heap[registry[j]].error_details ]

\* PDFProcessor.__init__: the registry of a newly constructed processor
NewRegistry == [j \in JobIds |-> 0]

\* ---- extraction and chunking ----

\* variant of PageKept: the MIN_TEXT_LENGTH test is left out
PageKept_AnyText(pg) ==
  /\ ~pg.raises
  /\ pg.raw_len > 0

\* the per-page test of _extract_pdf_text: the page is appended to pages_text
PageKept(pg) ==
  /\ ~pg.raises
  /\ pg.raw_len > 0
  /\ pg.raw_len >= MIN_TEXT_LENGTH

RECURSIVE ExtractFrom(_, _)
ExtractFrom(pages, n) ==
  IF n > Len(pages) THEN <<>>
  ELSE (IF PageKept(pages[n])
        THEN <<[paras |-> pages[n].paras, page_num |-> n]>>
        ELSE <<>>) \o ExtractFrom(pages, n + 1)

\* variant of extract_pdf_text: a page is numbered by its place among the
\* pages kept, not by its place in the document
extract_pdf_text_Renumbered(pages) ==
  [n \in 1..Len(ExtractFrom(pages, 1)) |->
     [ExtractFrom(pages, 1)[n] EXCEPT !.page_num = n]]

\* _extract_pdf_text's list of (text, page_number), pages numbered from 1
extract_pdf_text(pages) == ExtractFrom(pages, 1)

RECURSIVE SumLen(_)
SumLen(paras) ==
  IF paras = <<>> THEN 0 ELSE Head(paras) + SumLen(Tail(paras))

\* len(cleaned_text): the paragraphs joined by the "\n\n" clean_text leaves
CleanedLen(paras) ==
  IF paras = <<>> THEN 0 ELSE SumLen(paras) + 2 * (Len(paras) - 1)

Chunk(page_number, size) == [page_number |-> page_number, chunk_size |-> size]

\* the paragraph loop of _chunk_text, from paragraph n with the buffer at
\* current_size characters (0: current_chunk is empty)
RECURSIVE ChunkLoop(_, _, _, _)
ChunkLoop(paras, n, current_size, page_number) ==
  IF n > Len(paras)
  THEN IF current_size > 0 /\ current_size >= MIN_TEXT_LENGTH
       THEN <<Chunk(page_number, current_size)>>
       ELSE <<>>
  ELSE IF current_size + paras[n] > MAX_CHUNK_SIZE /\ current_size > 0
       THEN <<Chunk(page_number, current_size)>> \o
            ChunkLoop(paras, n + 1,
                      IF CHUNK_OVERLAP > 0
                      THEN Min(CHUNK_OVERLAP, current_size) + 2 + paras[n]
                      ELSE paras[n],
                      page_number)
       ELSE ChunkLoop(paras, n + 1,
                      IF current_size > 0 THEN current_size + 2 + paras[n]
                      ELSE paras[n],
                      page_number)

chunk_text(paras, page_number) ==
  IF CleanedLen(paras) = 0 \/ CleanedLen(paras) < MIN_TEXT_LENGTH
  THEN <<>>
  ELSE ChunkLoop(paras, 1, 0, page_number)

\* the loop of process_pdf_file that extends all_chunks page by page
RECURSIVE AllChunks(_)
AllChunks(pages_text) ==
  IF pages_text = <<>> THEN <<>>
  ELSE chunk_text(Head(pages_text).paras, Head(pages_text).page_num)
       \o AllChunks(Tail(pages_text))

\* calculate_readability_score on a chunk: 0.0 below MIN_TEXT_LENGTH, else
\* the value s the heuristics give for its content
readability_score(chunk, s) ==
  IF chunk.chunk_size < MIN_TEXT_LENGTH THEN 0 ELSE s

\* ---- process_pdf_file ----

\* the value of a datetime.utcnow() or uuid4() call: run r, place n in it
Stamp(r, n) == r * 100 + n

\* variant of LookupJob: the registry is not consulted
LookupJob_AlwaysUnknown(registry, j) == 0

\* self.jobs.get(job_id): the registered object, 0 when the id is unknown
LookupJob(registry, j) == registry[j]

\* the first writes of the try block: status, (message,) progress 10.0
StartJob(job) ==
  [job EXCEPT !.status = "processing", !.progress_percent = 1000]

\* variant of FailJob: the handler records neither message nor time
FailJob_StatusOnly(job, msg, now) == [job EXCEPT !.status = "failed"]

\* the except handler of process_pdf_file
FailJob(job, msg, now) ==
  [job EXCEPT !.status = "failed", !.error_details = msg,
              !.completed_at = now]

\* variant of CompleteJob: the success tail does not write the status
CompleteJob_ProgressOnly(job, now) ==
  [job EXCEPT !.progress_percent = 10000, !.completed_at = now]

\* the success tail of process_pdf_file
CompleteJob(job, now) ==
  [job EXCEPT !.status = "completed", !.progress_percent = 10000,
              !.completed_at = now]

\* min(60.0 + 40.0 * (i + batch_size) / len(all_chunks), 95.0)
BatchProgressValue(i, batch_size, n) ==
  Min(6000 + (4000 * (i + batch_size)) \div n, 9500)

\* variant of BelowThreshold: no chunk is rejected
BelowThreshold_Never(q) == FALSE

\* quality_score < MIN_READABILITY_SCORE: the chunk is skipped
BelowThreshold(q) == q < MIN_READABILITY_SCORE

\* variant of StoreRaises: a failed write is swallowed and the loop goes on
StoreRaises_Never(db_ok, vec_ok) == FALSE

\* variant of StoreRaises: a failed vector add is raised as well
StoreRaises_AnyFailure(db_ok, vec_ok) == ~db_ok \/ ~vec_ok

\* store_content_chunk raises exactly when the structured write failed:
\* _store_embedding_in_chromadb turns its own exceptions into False
StoreRaises(db_ok, vec_ok) == ~db_ok

\* the invocation has returned: what stays is what it was called with, what
\* became of each page, the chunks it had, the calls it made, what it raised
\* and what it returned
Returned(run, raised, result) ==
  [run EXCEPT !.pc = "done", !.pages = <<>>, !.pages_text = <<>>,
              !.i = 0, !.k = 0, !.raised = raised, !.result = result]

\* an exception reaches the except handler: the run ends, returning False
Raised(f, msg) ==
  [f EXCEPT !.job = FailJob(@, msg, Stamp(f.r, 2)),
            !.run = Returned(@, msg, "False")]

\* a stage ended normally: it wrote job.progress_percent and moved on
Progressed(f, run, percent) ==
  [f EXCEPT !.job.progress_percent = percent, !.run = run]

\* _extract_pdf_text lines 69-71: open the file and read the PDF's pages
ReadPdf(f, exists, readable, doc) ==
  IF f.run.pc # "extract" THEN f
  ELSE IF ~exists THEN Raised(f, "No such file or directory")
  ELSE IF ~readable THEN Raised(f, "Corrupted PDF")
  ELSE [f EXCEPT !.run.pc = "pages", !.run.pages = doc]

\* what a page gave: no text (extract_text raised or returned blank text),
\* text below MIN_TEXT_LENGTH, or readable text
PageOutcome(pg) ==
  IF pg.raises \/ pg.raw_len = 0 THEN "no_text"
  ELSE IF pg.raw_len < MIN_TEXT_LENGTH THEN "too_short" ELSE "readable"

\* _extract_pdf_text lines 78-105 and lines 260-261: the page loop, then
\* progress 30.0
ExtractPages(f) ==
  IF f.run.pc # "pages" THEN f
  ELSE LET pages_text == extract_pdf_text(f.run.pages)
           seen == [f EXCEPT !.run.pages = <<>>,
                      !.run.extracted = [n \in 1..Len(f.run.pages) |->
                                           PageOutcome(f.run.pages[n])]]
       IN IF pages_text = <<>>
          THEN Raised(seen, "No readable text found in PDF")
          ELSE Progressed(seen, [seen.run EXCEPT !.pc = "chunk",
                                    !.pages_text = pages_text], 3000)

\* lines 264-273: chunk every extracted page, then progress 50.0
ChunkPages(f) ==
  IF f.run.pc # "chunk" THEN f
  ELSE LET all_chunks == AllChunks(f.run.pages_text)
       IN IF all_chunks = <<>>
          THEN Raised(f, "No valid text chunks extracted from PDF")
          ELSE Progressed(f, [f.run EXCEPT !.pc = "load", !.pages_text = <<>>,
                                           !.all_chunks = all_chunks], 5000)

\* lines 276-282: _load_embedding_model (lazy), then progress 60.0
LoadModel(f, load_ok) ==
  IF f.run.pc # "load" THEN f
  ELSE IF ~f.model /\ ~load_ok
       THEN Raised(f, "embedding model failed to load")
       ELSE [Progressed(f, [f.run EXCEPT !.pc = "embed", !.i = 0], 6000)
               EXCEPT !.model = TRUE]

\* lines 284-289: the next batch is encoded; encoded counts the encode calls
Embed(f, encode_ok) ==
  IF f.run.pc # "embed" THEN f
  ELSE LET called == [f EXCEPT !.run.encoded = @ + 1]
       IN  IF ~encode_ok THEN Raised(called, "encode failed")
           ELSE [called EXCEPT !.run.pc = "store", !.run.k = 1]

\* lines 320-322: progress after a batch, and on to the next batch or out of
\* the loop
BatchProgress(f) ==
  IF f.run.pc # "progress" THEN f
  ELSE Progressed(f,
         [f.run EXCEPT !.i = @ + EMBEDDING_BATCH_SIZE,
            !.pc = IF f.run.i + EMBEDDING_BATCH_SIZE < Len(f.run.all_chunks)
                   THEN "embed" ELSE "dups"],
         BatchProgressValue(f.run.i, EMBEDDING_BATCH_SIZE,
                            Len(f.run.all_chunks)))

\* what a collaborator call may do: succeed or raise; nothing is drawn for
\* a call that is not made
Outcomes(called) == IF called THEN BOOLEAN ELSE {TRUE}

\* the frame of run r; job is the object the run works on
Frame(r, job) ==
  [r |-> r, job |-> job, run |-> runs[r], model |-> model[runs[r].proc]]

\* the frame is written back: the job object, the locals, the model
Resume(r, f) ==
  /\ heap' = [heap EXCEPT ![f.run.job] = f.job]
  /\ runs' = [runs EXCEPT ![r] = f.run]
  /\ model' = [model EXCEPT ![runs[r].proc] = f.model]

\* the invocations are numbered in the order they are made
FreeRun ==
  CHOOSE r \in Runs :
    runs[r].pc = "new" /\ \A q \in 1..(r - 1) : runs[q].pc # "new"

\* upload_manual: validate, save the file, construct a PDFProcessor and hand
\* process_pdf_file to the background tasks.  The uuid4 job id is the number
\* of the upload; the saved file's path carries the job id.
upload_manual(is_pdf, size) ==
  IF is_pdf /\ size = "ok"
  THEN /\ \E r \in Runs : runs[r].pc = "new"
       /\ nproc < MaxRuns
       /\ nproc' = nproc + 1
       /\ files' = files \cup {nproc + 1}
       /\ runs' = [runs EXCEPT ![FreeRun] =
            [NoRun EXCEPT !.pc = "begin", !.proc = nproc + 1,
                          !.job_id = nproc + 1, !.file_path = nproc + 1]]
       /\ UNCHANGED <<jobs, heap, model, db, vec, reply>>
       /\ UNCHANGED apart
  ELSE UNCHANGED vars

\* a caller that holds processor p invokes process_pdf_file(file_path, job_id)
\* itself, as the unit tests do
call_process_pdf_file(p, file_path, j) ==
  /\ p <= nproc
  /\ \E r \in Runs : runs[r].pc = "new"
  /\ runs' = [runs EXCEPT ![FreeRun] =
       [NoRun EXCEPT !.pc = "begin", !.proc = p, !.job_id = j,
                     !.file_path = file_path]]
  /\ UNCHANGED <<nproc, jobs, heap, model, files, db, vec, reply>>
  /\ UNCHANGED apart

\* lines 243-289: find or create the job, mark it processing, then extract,
\* chunk, load the model and encode the first batch, up to the first
\* store_content_chunk call
Start(r) ==
  LET run == runs[r]
      found == LookupJob(jobs[run.proc], run.job_id)
      o == IF found # 0 THEN found ELSE Len(heap) + 1
      job == IF found # 0 THEN heap[found]
             ELSE ProcessingJob(run.job_id, run.file_path, Stamp(r, 1))
      begun == [r |-> r, job |-> StartJob(job),
                run |-> [run EXCEPT !.pc = "extract", !.job = o],
                model |-> model[run.proc]]
      exists == run.file_path \in files
  IN /\ run.pc = "begin"
     /\ \E readable \in Outcomes(exists) :
        \E doc \in IF exists /\ readable THEN Docs ELSE {<<>>} :
          LET chunked == ChunkPages(ExtractPages(
                           ReadPdf(begun, exists, readable, doc)))
          IN \E load_ok \in Outcomes(chunked.run.pc = "load" /\ ~chunked.model) :
               LET loaded == LoadModel(chunked, load_ok)
               IN \E encode_ok \in Outcomes(loaded.run.pc = "embed") :
                    LET f == Embed(loaded, encode_ok)
                    IN /\ heap' = IF found # 0
                                  THEN [heap EXCEPT ![o] = f.job]
                                  ELSE Append(heap, f.job)
                       /\ runs' = [runs EXCEPT ![r] = f.run]
                       /\ model' = [model EXCEPT ![run.proc] = f.model]
     /\ jobs' = IF found # 0 THEN jobs
                ELSE [jobs EXCEPT ![run.proc][run.job_id] = o]
     /\ UNCHANGED <<nproc, files, db, vec, reply>>
     /\ UNCHANGED apart

\* variant of RowsAfterRaise: the rows the run stored before are rolled back
RowsAfterRaise_RolledBack(rows, r) == { row \in rows : row.id \div 100 # r }

\* the structured store after store_content_chunk raised in run r: every call
\* has a session of its own, and the rollback of the failed one
\* (connection.py:30-32) undoes nothing that an earlier call committed
RowsAfterRaise(rows, r) == rows

\* the ManualContent row store_content_chunk builds for a chunk
ManualContent(id, chunk, source_manual, confidence_score, now) ==
  [ id |-> id, chunk_size |-> chunk.chunk_size,
    page_reference |-> chunk.page_number,
    confidence_score |-> confidence_score,
    source_manual |-> source_manual, created_at |-> now ]

\* ContentManager.get_content_by_id: the row with that id, or None
get_content_by_id(id) ==
  IF \E row \in db : row.id = id
  THEN CHOOSE row \in db : row.id = id
  ELSE NoneDict

\* lines 292-322, 284-289: the next chunk of the batch is scored and, when it
\* passes, handed to store_content_chunk (structured insert and commit, then
\* the vector add); after the last chunk of a batch, the progress update and
\* the encoding of the next batch.  s, db_ok, vec_ok and encode_ok are what
\* the scorer, the two stores and the embedding model do.  calls records, per
\* chunk, the score, whether the chunk was passed to store_content_chunk,
\* whether the structured write and the vector add succeeded, and the id
\* store_content_chunk returned (0: it raised or was not called).
StoreChunk(r) ==
  LET run == runs[r]
      n == run.i + run.k
      chunk == run.all_chunks[n]
      last == Min(run.i + EMBEDDING_BATCH_SIZE, Len(run.all_chunks))
      next_pc == IF n = last THEN "progress" ELSE "store"
      next_k == IF n = last THEN run.k ELSE run.k + 1
      f == Frame(r, heap[run.job])
  IN /\ run.pc = "store"
     /\ \E s \in Scores,
           encode_ok \in Outcomes(n = last /\ last < Len(run.all_chunks)) :
          LET quality_score == readability_score(chunk, s)
          IN IF BelowThreshold(quality_score)
             THEN /\ Resume(r, Embed(BatchProgress(
                       [f EXCEPT !.run.pc = next_pc, !.run.k = next_k,
                          !.run.calls = Append(@, [score |-> quality_score,
                             passed |-> FALSE, db_ok |-> FALSE,
                             vec_ok |-> FALSE, returned |-> 0])]),
                       encode_ok))
                  /\ UNCHANGED <<db, vec>>
             ELSE \E db_ok \in BOOLEAN : \E vec_ok \in Outcomes(db_ok) :
                  LET content_id == Stamp(r, 10 + n)
                      row == ManualContent(content_id, chunk, f.job.filename,
                                           quality_score, Stamp(r, 10 + n))
                      called == [f EXCEPT !.run.calls =
                                   Append(@, [score |-> quality_score,
                                     passed |-> TRUE, db_ok |-> db_ok,
                                     vec_ok |-> db_ok /\ vec_ok,
                                     returned |->
                                       IF StoreRaises(db_ok, vec_ok) THEN 0
                                       ELSE content_id])]
                  IN /\ db' = IF db_ok THEN db \cup {row}
                              ELSE RowsAfterRaise(db, r)
                     /\ vec' = IF db_ok /\ vec_ok
                               THEN vec \cup {content_id} ELSE vec
                     /\ IF StoreRaises(db_ok, vec_ok)
                        THEN Resume(r, Raised(called,
                               IF db_ok THEN "vector store error"
                               ELSE "database error"))
                        ELSE Resume(r, Embed(BatchProgress(
                               [called EXCEPT !.run.pc = next_pc,
                                  !.run.k = next_k,
                                  !.run.processed_count = @ + 1]),
                               encode_ok))
     /\ UNCHANGED <<nproc, jobs, files, reply>>
     /\ UNCHANGED apart

\* variant of DuplicatePassRaises: the query's exception is let through
DuplicatePassRaises_OnError(dup_db_ok) == ~dup_db_ok

\* check_for_duplicates wraps its whole body in try/except and returns []:
\* whatever the query does, nothing is raised to process_pdf_file
DuplicatePassRaises(dup_db_ok) == FALSE

\* variant of UnlinkRaises: a failed unlink reaches the except handler
UnlinkRaises_OnError(unlink_ok) == ~unlink_ok

\* Path(file_path).unlink() is in a try/except of its own (lines 329-332):
\* a failure is logged and nothing is raised
UnlinkRaises(unlink_ok) == FALSE

\* lines 324-344: check_for_duplicates reads the structured store (a database
\* error is caught inside it and an empty list comes back); the source file
\* is unlinked (a failure is logged and ignored); the job is marked completed
\* and True is returned.  unlink records what the unlink attempt did.
Finish(r) ==
  LET run == runs[r]
      f == Frame(r, heap[run.job])
  IN /\ run.pc = "dups"
     /\ \E dup_db_ok \in BOOLEAN :
          IF DuplicatePassRaises(dup_db_ok)
          THEN /\ Resume(r, Raised(f, "database error"))
               /\ UNCHANGED files
          ELSE \E unlink_ok \in BOOLEAN :
               LET tried == [f EXCEPT !.run.unlink =
                               IF unlink_ok THEN "ok" ELSE "failed"]
               IN /\ files' = IF unlink_ok THEN files \ {run.file_path}
                              ELSE files
                  /\ IF UnlinkRaises(unlink_ok)
                     THEN Resume(r, Raised(tried, "unlink failed"))
                     ELSE Resume(r, [tried EXCEPT
                            !.job = CompleteJob(@, Stamp(r, 2)),
                            !.run = Returned(@, None, "True")])
     /\ UNCHANGED <<nproc, jobs, db, vec, reply>>
     /\ UNCHANGED apart

\* ---- the registry calls and the status endpoint ----

\* variant of Unregister: the entry stays in the registry
Unregister_Keeps(registry, j) == registry

\* del self.jobs[job_id]
Unregister(registry, j) == [registry EXCEPT ![j] = 0]

\* PDFProcessor.delete_job, by a caller that holds processor p and does not
\* look at what it returns
delete_job(p, j) ==
  /\ p <= nproc
  /\ jobs' = IF jobs[p][j] # 0 THEN [jobs EXCEPT ![p] = Unregister(@, j)]
             ELSE jobs
  /\ UNCHANGED <<nproc, heap, model, runs, files, db, vec, reply>>
  /\ UNCHANGED apart

\* PDFProcessor.delete_job, by a caller that holds processor p and keeps what
\* it returns: True for a known id, which is removed, False for an unknown id
call_delete_job(p, j) ==
  /\ p <= nproc
  /\ jobs' = IF jobs[p][j] # 0 THEN [jobs EXCEPT ![p] = Unregister(@, j)]
             ELSE jobs
  /\ reply' = [op |-> "delete_job", proc |-> p, job_id |-> j,
               result |-> IF jobs[p][j] # 0 THEN "True" ELSE "False"]
  /\ UNCHANGED <<nproc, heap, model, runs, files, db, vec>>
  /\ UNCHANGED apart

\* the registry the status endpoint reads: that of the PDFProcessor it
\* constructs for the request
StatusRegistry == NewRegistry

\* GET /status/{job_id}: 404 "Job not found" when get_job_status gives None
get_processing_status(j) ==
  /\ reply' = [op |-> "get_processing_status",
               code |-> IF get_job_status(StatusRegistry, j) = NoneDict
                        THEN 404 ELSE 200,
               job_id |-> j]
  /\ UNCHANGED <<nproc, jobs, heap, model, runs, files, db, vec>>
  /\ UNCHANGED apart

Next ==
  \/ \E is_pdf \in BOOLEAN, size \in {"small", "ok", "large"} :
       upload_manual(is_pdf, size)
  \/ \E p \in Procs, f \in Paths, j \in JobIds : call_process_pdf_file(p, f, j)
  \/ \E r \in Runs : Start(r)
  \/ \E r \in Runs : StoreChunk(r)
  \/ \E r \in Runs : Finish(r)
  \/ \E p \in Procs, j \in JobIds : delete_job(p, j)

Spec == Init /\ [][Next]_vars

\* the service as deployed: the requests come through the endpoints only
NextApi ==
  \/ \E is_pdf \in BOOLEAN, size \in {"small", "ok", "large"} :
       upload_manual(is_pdf, size)
  \/ \E r \in Runs : Start(r)
  \/ \E r \in Runs : StoreChunk(r)
  \/ \E r \in Runs : Finish(r)
  \/ \E j \in JobIds : get_processing_status(j)

SpecApi == Init /\ [][NextApi]_vars

\* Every collaborator call returns or raises, and the event loop resumes a
\* coroutine whose awaited call has finished: a run that can take its next
\* step eventually takes it.
Scheduled ==
  \A r \in Runs :
    WF_vars(Start(r)) /\ WF_vars(StoreChunk(r)) /\ WF_vars(Finish(r))

\* the uploads and the runs they start
NextUploads ==
  \/ \E is_pdf \in BOOLEAN, size \in {"small", "ok", "large"} :
       upload_manual(is_pdf, size)
  \/ \E r \in Runs : Start(r)
  \/ \E r \in Runs : StoreChunk(r)
  \/ \E r \in Runs : Finish(r)

SpecScheduled == Init /\ [][NextUploads]_vars /\ Scheduled

\* uploads whose jobs are deleted from the registry of their processor
NextRegistry ==
  \/ \E is_pdf \in BOOLEAN, size \in {"small", "ok", "large"} :
       upload_manual(is_pdf, size)
  \/ \E r \in Runs : Start(r)
  \/ \E r \in Runs : StoreChunk(r)
  \/ \E r \in Runs : Finish(r)
  \/ \E p \in Procs, j \in JobIds : call_delete_job(p, j)

SpecRegistry == Init /\ [][NextRegistry]_vars

\* ---- _chunk_text on its own ----

MaxParas == 3     \* paragraphs of one page text

\* lengths of the paragraphs of a cleaned page text: below MIN_TEXT_LENGTH,
\* short, around MAX_CHUNK_SIZE and above MAX_CHUNK_SIZE + CHUNK_OVERLAP
ParaLens == {10, 40, 300, 995, 1000, 1300}

\* the cleaned texts (<<>> is the empty text)
Texts == UNION { [1..n -> ParaLens] : n \in 0..MaxParas }

\* a caller is about to call _chunk_text(text, page_number)
InitChunkText ==
  /\ nproc = 0
  /\ jobs = [p \in Procs |-> [j \in JobIds |-> 0]]
  /\ heap = <<>>
  /\ model = [p \in Procs |-> FALSE]
  /\ runs = [r \in Runs |-> NoRun]
  /\ files = {}
  /\ db = {}
  /\ vec = {}
  /\ reply = [op |-> "none"]
  /\ ops = <<>>
  /\ dupcheck = [called |-> FALSE]
  /\ pure = [called |-> FALSE]
  /\ chunker \in { [called |-> FALSE, paras |-> t, page_number |-> n,
                     chunks |-> <<>>] : t \in Texts, n \in 1..MaxPages }

\* _chunk_text returns.  A chunk's content is the buffer stripped, so
\* len(content) is chunk_size when the buffer begins with no white space (it
\* is less when the overlap slice begins with white space).
call_chunk_text ==
  /\ ~chunker.called
  /\ chunker' = [chunker EXCEPT !.called = TRUE,
                    !.chunks = chunk_text(chunker.paras, chunker.page_number)]
  /\ UNCHANGED <<nproc, jobs, heap, model, runs, files, db, vec, reply,
                 ops, dupcheck, pure>>

NextChunkText == call_chunk_text

SpecChunkText == InitChunkText /\ [][NextChunkText]_vars

\* ---- check_for_duplicates on its own ----

MaxRows == 4        \* records in the structured store
\* the limit of the query for the most recent records (100 in the code),
\* scaled so that the store can hold more records than the query returns
RecentLimit == 3

DUPLICATE_SIMILARITY_THRESHOLD == 90

\* values _calculate_text_similarity is taken to return on two contents
Sims == {0, 89, 90}

\* the pairs the nested loop can visit: a record and a later one of the list
PairsOf(n) == { pr \in (1..n) \X (1..n) : pr[1] < pr[2] }

\* a caller is about to call check_for_duplicates: rows are the ids of the
\* store's records, most recently created first, and sim is what
\* _calculate_text_similarity gives on the contents of two of them
InitDuplicates ==
  /\ nproc = 0
  /\ jobs = [p \in Procs |-> [j \in JobIds |-> 0]]
  /\ heap = <<>>
  /\ model = [p \in Procs |-> FALSE]
  /\ runs = [r \in Runs |-> NoRun]
  /\ files = {}
  /\ db = {}
  /\ vec = {}
  /\ reply = [op |-> "none"]
  /\ ops = <<>>
  /\ chunker = [called |-> FALSE]
  /\ pure = [called |-> FALSE]
  /\ \E n \in 0..MaxRows :
       dupcheck \in { [called |-> FALSE, rows |-> [k \in 1..n |-> 100 + k],
                       sim |-> f, db_ok |-> TRUE, duplicates |-> <<>>] :
                      f \in [PairsOf(n) -> Sims] }

\* variant of IsDuplicate: a pair at the threshold is not reported
IsDuplicate_Above(similarity) == similarity > DUPLICATE_SIMILARITY_THRESHOLD

\* similarity >= DUPLICATE_SIMILARITY_THRESHOLD
IsDuplicate(similarity) == similarity >= DUPLICATE_SIMILARITY_THRESHOLD

\* the inner loop: content_items[i] against content_items[j], j from i + 1
RECURSIVE DuplicatesOf(_, _, _, _)
DuplicatesOf(content_items, sim, i, j) ==
  IF j > Len(content_items) THEN <<>>
  ELSE (IF IsDuplicate(sim[<<i, j>>])
        THEN << <<content_items[i], content_items[j], sim[<<i, j>>]>> >>
        ELSE <<>>) \o DuplicatesOf(content_items, sim, i, j + 1)

\* the outer loop, from content_items[i] on
RECURSIVE DuplicatesFrom(_, _, _)
DuplicatesFrom(content_items, sim, i) ==
  IF i > Len(content_items) THEN <<>>
  ELSE DuplicatesOf(content_items, sim, i, i + 1)
       \o DuplicatesFrom(content_items, sim, i + 1)

\* order_by(created_at.desc()).limit(...): the most recent records
RecentRows(rows) == SubSeq(rows, 1, Min(Len(rows), RecentLimit))

\* check_for_duplicates: the pairs found, [] when the query raised
check_for_duplicates(rows, sim, db_ok) ==
  IF db_ok THEN DuplicatesFrom(RecentRows(rows), sim, 1) ELSE <<>>

call_check_for_duplicates ==
  /\ ~dupcheck.called
  /\ \E db_ok \in BOOLEAN :
       dupcheck' = [dupcheck EXCEPT !.called = TRUE, !.db_ok = db_ok,
                      !.duplicates =
                        check_for_duplicates(dupcheck.rows, dupcheck.sim, db_ok)]
  /\ UNCHANGED <<nproc, jobs, heap, model, runs, files, db, vec, reply,
                 ops, chunker, pure>>

NextDuplicates == call_check_for_duplicates

SpecDuplicates == InitDuplicates /\ [][NextDuplicates]_vars

\* ---- the ContentManager on its own: store, delete, search ----

MaxOps == 3       \* store_content_chunk and delete_content calls

\* A content is the set of the words that occur in it: a query is a substring
\* of the content when it is one of them.
Words == {"pump", "drain"}

\* what store_content_chunk is called with: the content, the metadata and the
\* confidence score
StoreKinds ==
  { [content |-> {"pump"}, manufacturer |-> "Whirlpool",
     content_type |-> "troubleshooting", confidence_score |-> 30],
    [content |-> {"pump", "drain"}, manufacturer |-> "LG",
     content_type |-> "maintenance", confidence_score |-> 80] }

\* the row store_content_chunk builds, with the fields the searches read
ManualContentRow(id, kind, now) ==
  [ id |-> id, content |-> kind.content, manufacturer |-> kind.manufacturer,
    content_type |-> kind.content_type,
    confidence_score |-> kind.confidence_score, created_at |-> now ]

\* a ContentManager call: what it is, where it is, what it did
Op(call, pc, id, kind, db_ok, deleted, result) ==
  [ call |-> call, pc |-> pc, id |-> id, kind |-> kind, db_ok |-> db_ok,
    deleted |-> deleted, vec_called |-> FALSE, vec_ok |-> FALSE,
    result |-> result ]

\* store_content_chunk lines 54-73: the uuid4, the insert and the commit.
\* When the commit raises, the exception is logged and raised again.
store_content_chunk(kind, db_ok) ==
  LET content_id == Len(ops) + 1
  IN /\ Len(ops) < MaxOps
     /\ db' = IF db_ok
              THEN db \cup {ManualContentRow(content_id, kind, content_id)}
              ELSE db
     /\ ops' = Append(ops,
          IF db_ok
          THEN Op("store_content_chunk", "embedding", content_id, kind,
                  TRUE, FALSE, "pending")
          ELSE Op("store_content_chunk", "done", content_id, kind,
                  FALSE, FALSE, "raised"))
     /\ UNCHANGED <<nproc, jobs, heap, model, runs, files, vec, reply,
                    chunker, dupcheck, pure>>

\* store_content_chunk lines 75-89: _store_embedding_in_chromadb adds the
\* entry (or fails and returns False), and the content id is returned
store_embedding(o, vec_ok) ==
  /\ o \in 1..Len(ops)
  /\ ops[o].call = "store_content_chunk"
  /\ ops[o].pc = "embedding"
  /\ vec' = IF vec_ok THEN vec \cup {ops[o].id} ELSE vec
  /\ ops' = [ops EXCEPT ![o].pc = "done", ![o].vec_called = TRUE,
                        ![o].vec_ok = vec_ok,
                        ![o].result = IF StoreRaises(TRUE, vec_ok)
                                      THEN "raised" ELSE "id"]
  /\ UNCHANGED <<nproc, jobs, heap, model, runs, files, db, reply,
                 chunker, dupcheck, pure>>

\* variant of DeleteAborts: rowcount is not looked at
DeleteAborts_OnErrorOnly(db_ok, rowcount) == ~db_ok

\* delete_content returns False before the vector store is called: the
\* delete or its commit raised, or no row matched
DeleteAborts(db_ok, rowcount) == ~db_ok \/ rowcount = 0

\* delete_content lines 417-426: the delete statement and its commit
delete_content(id, db_ok) ==
  LET rowcount == Cardinality({row \in db : row.id = id})
  IN /\ Len(ops) < MaxOps
     /\ db' = IF db_ok THEN {row \in db : row.id # id} ELSE db
     /\ ops' = Append(ops,
          IF DeleteAborts(db_ok, rowcount)
          THEN Op("delete_content", "done", id, NoneDict, db_ok,
                  db_ok /\ rowcount > 0, "False")
          ELSE Op("delete_content", "embedding", id, NoneDict, db_ok,
                  db_ok /\ rowcount > 0, "pending"))
     /\ UNCHANGED <<nproc, jobs, heap, model, runs, files, vec, reply,
                    chunker, dupcheck, pure>>

\* delete_content lines 428-440: the vector store's delete (a failure is
\* logged), then True
delete_embedding(o, vec_ok) ==
  /\ o \in 1..Len(ops)
  /\ ops[o].call = "delete_content"
  /\ ops[o].pc = "embedding"
  /\ vec' = IF vec_ok THEN vec \ {ops[o].id} ELSE vec
  /\ ops' = [ops EXCEPT ![o].pc = "done", ![o].vec_called = TRUE,
                        ![o].vec_ok = vec_ok, ![o].result = "True"]
  /\ UNCHANGED <<nproc, jobs, heap, model, runs, files, db, reply,
                 chunker, dupcheck, pure>>

\* ---- search_content ----

MaxSearches == 1      \* search_content calls in one behaviour

\* the search_content calls made so far
SearchesMade == IF reply.op = "search_content" THEN reply.n ELSE 0

\* the manufacturer filters, the content-type filters, the minimum
\* confidences and the result limits a search is made with
ManufacturerFilters == {None, "Whirlpool", "whirl"}
ContentTypeFilters == {None, "troubleshooting"}
MinConfidences == {0, 50}
MaxResults == {1, 10}

\* distances the vector store reports for an entry (hundredths)
Distances == {10, 80}

\* value ILIKE %part%: part occurs in value, letter case ignored
Contains(value, part) ==
  part = value \/ (part = "whirl" /\ value = "Whirlpool")

\* max(0, 1 - distance)
Similarity(distance) == IF 100 - distance < 0 THEN 0 ELSE 100 - distance

\* an entry of "results": the row's fields and the similarity score
SearchResult(row, similarity_score) ==
  [ id |-> row.id, content |-> row.content,
    manufacturer |-> row.manufacturer, content_type |-> row.content_type,
    confidence_score |-> row.confidence_score,
    similarity_score |-> similarity_score ]

\* the entries of the collection that satisfy the "where" of the query; an
\* entry's metadata are those store_content_chunk was called with
VectorMatches(manufacturer, content_type) ==
  { id \in vec :
      /\ manufacturer = None \/ ops[id].kind.manufacturer = manufacturer
      /\ content_type = None \/ ops[id].kind.content_type = content_type }

\* the answers the vector store may give: the n_results nearest entries
Nearest(matches, dist, n_results) ==
  { hits \in SUBSET matches :
      /\ Cardinality(hits) = Min(n_results, Cardinality(matches))
      /\ \A a \in hits, b \in matches \ hits : dist[a] <= dist[b] }

\* search_content lines 230-259: the hits at or above min_confidence whose
\* row the structured store has
VectorResults(hits, dist, min_confidence) ==
  { SearchResult(get_content_by_id(id), Similarity(dist[id])) :
      id \in { h \in hits : /\ ~(Similarity(dist[h]) < min_confidence)
                             /\ \E row \in db : row.id = h } }

\* the statement _fallback_text_search builds: the filters, without the limit
FallbackRows(manufacturer, content_type, min_confidence) ==
  { row \in db :
      /\ manufacturer = None \/ Contains(row.manufacturer, manufacturer)
      /\ content_type = None \/ row.content_type = content_type
      /\ row.confidence_score >= min_confidence }

\* .limit(max_results) on a statement without ORDER BY: any max_results rows
Limited(rows, max_results) ==
  { picked \in SUBSET rows :
      Cardinality(picked) = Min(max_results, Cardinality(rows)) }

\* variant of fallback_text_search: the database exception is not caught
fallback_text_search_Uncaught(content_items, db_ok) ==
  IF db_ok
  THEN [ raised |-> FALSE, path |-> "fallback",
         results |-> { SearchResult(item, 50) : item \in content_items } ]
  ELSE [ raised |-> TRUE, path |-> "fallback_failed", results |-> {} ]

\* _fallback_text_search: the rows the statement gave, each with similarity
\* score 0.5, or the empty result when the database raised
fallback_text_search(content_items, db_ok) ==
  IF db_ok
  THEN [ raised |-> FALSE, path |-> "fallback",
         results |-> { SearchResult(item, 50) : item \in content_items } ]
  ELSE [ raised |-> FALSE, path |-> "fallback_failed", results |-> {} ]

\* what search_content returns, with what it was asked and what the vector
\* store did
SearchReply(query, manufacturer, content_type, min_confidence, max_results, vector, out) ==
  [ op |-> "search_content", n |-> SearchesMade + 1,
    query |-> query, manufacturer |-> manufacturer,
    content_type |-> content_type, min_confidence |-> min_confidence,
    max_results |-> max_results, vector |-> vector, raised |-> out.raised,
    path |-> out.path, results |-> out.results,
    total_results |-> Cardinality(out.results) ]

\* the fallback of search_content: _fallback_text_search's result is returned
Fallback(query, manufacturer, content_type, min_confidence, max_results, vector) ==
  \E db_ok \in BOOLEAN :
  \E picked \in IF db_ok
                THEN Limited(FallbackRows(manufacturer, content_type,
                                          min_confidence), max_results)
                ELSE {{}} :
    reply' = SearchReply(query, manufacturer, content_type, min_confidence,
                         max_results, vector,
                         fallback_text_search(picked, db_ok))

\* search_content: the vector query; on status 200 the rows of the hits are
\* read from the structured store; on another status or on any exception
\* (the vector store's or the database's) the fallback search is made
search_content(query, manufacturer, content_type, min_confidence, max_results) ==
  /\ SearchesMade < MaxSearches
  /\ \E vector \in {"raised", "non200", "ok"} :
       IF vector = "ok"
       THEN \E dist \in [VectorMatches(manufacturer, content_type)
                          -> Distances] :
            \E hits \in Nearest(VectorMatches(manufacturer, content_type),
                                dist, max_results) :
            \E lookup_ok \in BOOLEAN :
              IF lookup_ok
              THEN reply' = SearchReply(query, manufacturer, content_type,
                              min_confidence, max_results, vector,
                              [ raised |-> FALSE, path |-> "vector",
                                results |->
                                  VectorResults(hits, dist, min_confidence) ])
              ELSE Fallback(query, manufacturer, content_type,
                            min_confidence, max_results, "lookup_raised")
       ELSE Fallback(query, manufacturer, content_type, min_confidence,
                     max_results, vector)
  /\ UNCHANGED <<nproc, jobs, heap, model, runs, files, db, vec,
                 ops, chunker, dupcheck, pure>>

NextStore ==
  \/ \E kind \in StoreKinds, db_ok \in BOOLEAN : store_content_chunk(kind, db_ok)
  \/ \E o \in 1..MaxOps, vec_ok \in BOOLEAN : store_embedding(o, vec_ok)
  \/ \E id \in 1..MaxOps, db_ok \in BOOLEAN : delete_content(id, db_ok)
  \/ \E o \in 1..MaxOps, vec_ok \in BOOLEAN : delete_embedding(o, vec_ok)
  \/ \E query \in Words, manufacturer \in ManufacturerFilters,
        content_type \in ContentTypeFilters,
        min_confidence \in MinConfidences, max_results \in MaxResults :
       search_content(query, manufacturer, content_type, min_confidence,
                      max_results)

SpecStore == Init /\ [][NextStore]_vars

\* ---- the pure functions on their own ----

\* nothing of the pipeline, the stores or the other calls has happened
Untouched ==
  /\ nproc = 0
  /\ jobs = [p \in Procs |-> [j \in JobIds |-> 0]]
  /\ heap = <<>>
  /\ model = [p \in Procs |-> FALSE]
  /\ runs = [r \in Runs |-> NoRun]
  /\ files = {}
  /\ db = {}
  /\ vec = {}
  /\ reply = [op |-> "none"]
  /\ ops = <<>>
  /\ chunker = [called |-> FALSE]
  /\ dupcheck = [called |-> FALSE]

\* ---- TextCleaner.clean_text ----

MaxTokens == 4    \* pieces of one raw text

\* A text is a sequence of pieces: the word "page", a run of digits ("7"), a
\* single consonant ("k"), an ordinary word ("drum"), the unit "in" (and the
\* "inches" the cleaner writes for it), a space and a newline.  Pieces
\* written next to each other with no white space between form one word.
Spaces == {" ", "\n"}
WordPieces == {"page", "7", "k", "drum", "in", "inches"}
Pieces == {"page", "7", "k", "drum", "in", " ", "\n"}
RawTexts == UNION { [1..n -> Pieces] : n \in 0..MaxTokens }

\* the last index of the run of pieces of S that begins at i (i - 1: no run)
RECURSIVE RunEnd(_, _, _)
RunEnd(text, i, S) ==
  IF i <= Len(text) /\ text[i] \in S THEN RunEnd(text, i + 1, S) ELSE i - 1

\* ^(?:page\s*\d+|\d+\s*$) tried at i: the index where the match ends, 0 when
\* there is none.  \s* takes newlines too and $ holds at the end of the text
\* and before a newline, so the second branch ends before the last newline of
\* the white space that follows the digits.
PageNumberMatch(text, i) ==
  IF text[i] = "page"
  THEN LET j == RunEnd(text, i + 1, Spaces) + 1
       IN  IF j <= Len(text) /\ text[j] = "7" THEN RunEnd(text, j, {"7"}) ELSE 0
  ELSE IF text[i] = "7"
  THEN LET d  == RunEnd(text, i, {"7"})
           e  == RunEnd(text, d + 1, Spaces)
           nl == { k \in (d + 1)..e : text[k] = "\n" }
       IN  IF e = Len(text) THEN e
           ELSE IF nl # {} THEN (CHOOSE k \in nl : \A m \in nl : m <= k) - 1
           ELSE 0
  ELSE 0

\* re.sub of the page-number pattern with '': a match begins only at the
\* beginning of a line of the text as it was given
RECURSIVE RemovePageNumbers(_, _)
RemovePageNumbers(text, i) ==
  IF i > Len(text) THEN <<>>
  ELSE LET e == IF i = 1 \/ text[i - 1] = "\n"
                THEN PageNumberMatch(text, i) ELSE 0
       IN  IF e >= i THEN RemovePageNumbers(text, e + 1)
           ELSE <<text[i]>> \o RemovePageNumbers(text, i + 1)

\* \b[bcdfg...]\b: a consonant with no word character on either side
LoneConsonant(text, i) ==
  /\ text[i] = "k"
  /\ i = 1 \/ text[i - 1] \notin WordPieces
  /\ i = Len(text) \/ text[i + 1] \notin WordPieces

RECURSIVE RemoveLoneConsonants(_, _)
RemoveLoneConsonants(text, i) ==
  IF i > Len(text) THEN <<>>
  ELSE (IF LoneConsonant(text, i) THEN <<>> ELSE <<text[i]>>)
         \o RemoveLoneConsonants(text, i + 1)

\* _remove_artifacts: the patterns in the order of artifact_patterns (the
\* others match nothing in a text made of these pieces)
remove_artifacts(text) == RemoveLoneConsonants(RemovePageNumbers(text, 1), 1)

\* \n\s*\n\s*(\n\s*)* -> \n\n: from the first newline of a run of white
\* space that holds another newline, to the end of the run
RECURSIVE ParagraphBreaks(_, _)
ParagraphBreaks(text, i) ==
  IF i > Len(text) THEN <<>>
  ELSE LET e == RunEnd(text, i, Spaces)
       IN  IF text[i] = "\n" /\ \E k \in (i + 1)..e : text[k] = "\n"
           THEN <<"\n", "\n">> \o ParagraphBreaks(text, e + 1)
           ELSE <<text[i]>> \o ParagraphBreaks(text, i + 1)

\* (?<!\n)\n(?!\n) -> ' '
JoinLines(text) ==
  [ i \in 1..Len(text) |->
      IF /\ text[i] = "\n"
         /\ ~(i > 1 /\ text[i - 1] = "\n")
         /\ ~(i < Len(text) /\ text[i + 1] = "\n")
      THEN " " ELSE text[i] ]

\* [ ]+ -> ' '
RECURSIVE SingleSpaces(_, _)
SingleSpaces(text, i) ==
  IF i > Len(text) THEN <<>>
  ELSE (IF text[i] = " " /\ i > 1 /\ text[i - 1] = " " THEN <<>>
        ELSE <<text[i]>>) \o SingleSpaces(text, i + 1)

\* _normalize_whitespace
normalize_whitespace(text) ==
  SingleSpaces(JoinLines(ParagraphBreaks(text, 1)), 1)

\* _fix_encoding_issues replaces eight mis-decoded sequences; a text made of
\* these pieces holds none of them
fix_encoding_issues(text) == text

\* (\d+)\s*(inches?|in\.?) -> \1 inches
RECURSIVE StandardizeInches(_, _)
StandardizeInches(text, i) ==
  IF i > Len(text) THEN <<>>
  ELSE IF text[i] = "7"
  THEN LET d == RunEnd(text, i, {"7"})
           u == RunEnd(text, d + 1, Spaces) + 1
       IN  IF u <= Len(text) /\ text[u] \in {"in", "inches"}
           THEN SubSeq(text, i, d) \o <<" ", "inches">>
                  \o StandardizeInches(text, u + 1)
           ELSE SubSeq(text, i, d) \o StandardizeInches(text, d + 1)
  ELSE <<text[i]>> \o StandardizeInches(text, i + 1)

\* _standardize_formatting (no section header, no other unit and no
\* temperature is made of these pieces)
standardize_formatting(text) == StandardizeInches(text, 1)

\* str.strip()
RECURSIVE strip(_)
strip(text) ==
  IF text = <<>> THEN <<>>
  ELSE IF Head(text) \in Spaces THEN strip(Tail(text))
  ELSE IF text[Len(text)] \in Spaces THEN strip(SubSeq(text, 1, Len(text) - 1))
  ELSE text

\* clean_text
clean_text(text) ==
  IF text = <<>> THEN <<>>
  ELSE strip(standardize_formatting(fix_encoding_issues(
               normalize_whitespace(remove_artifacts(text)))))

\* a caller holds a raw text
InitCleanText ==
  /\ Untouched
  /\ pure \in { [fn |-> "clean_text", calls |-> 0, text |-> t,
                 cleaned |-> <<>>, again |-> <<>>] : t \in RawTexts }

\* clean_text is called on the raw text, and then on what it returned
call_clean_text ==
  /\ pure.calls < 2
  /\ pure' = IF pure.calls = 0
             THEN [pure EXCEPT !.calls = 1, !.cleaned = clean_text(pure.text)]
             ELSE [pure EXCEPT !.calls = 2, !.again = clean_text(pure.cleaned)]
  /\ UNCHANGED <<nproc, jobs, heap, model, runs, files, db, vec, reply,
                 ops, chunker, dupcheck>>

NextCleanText == call_clean_text

SpecCleanText == InitCleanText /\ [][NextCleanText]_vars

\* ---- QualityValidator._calculate_text_similarity ----

MaxChars == 3     \* characters of one compared text

\* the characters of the compared texts: a letter in both cases, another
\* letter and a space
Chars == {"a", "A", "b", " "}
ComparedTexts == UNION { [1..n -> Chars] : n \in 0..MaxChars }

\* str.lower()
lower(text) == [ i \in 1..Len(text) |-> IF text[i] = "A" THEN "a" ELSE text[i] ]

\* the length of the block a[i..] = b[j..] inside a[..ahi] and b[..bhi]
RECURSIVE BlockLen(_, _, _, _, _, _)
BlockLen(a, b, i, j, ahi, bhi) ==
  IF i <= ahi /\ j <= bhi /\ a[i] = b[j]
  THEN 1 + BlockLen(a, b, i + 1, j + 1, ahi, bhi) ELSE 0

\* SequenceMatcher.find_longest_match: where the longest matching block of
\* a[alo..ahi] and b[blo..bhi] begins; of the longest, the one that begins
\* earliest in a, and of those the one that begins earliest in b
LongestMatch(a, b, alo, ahi, blo, bhi) ==
  LET places == (alo..ahi) \X (blo..bhi)
      k(c) == BlockLen(a, b, c[1], c[2], ahi, bhi)
  IN  CHOOSE c \in places :
        \A d \in places :
          \/ k(c) > k(d)
          \/ k(c) = k(d) /\ c[1] < d[1]
          \/ k(c) = k(d) /\ c[1] = d[1] /\ c[2] <= d[2]

\* SequenceMatcher.get_matching_blocks, summed: the longest block, then the
\* same to its left and to its right
RECURSIVE Matches(_, _, _, _, _, _)
Matches(a, b, alo, ahi, blo, bhi) ==
  IF alo > ahi \/ blo > bhi THEN 0
  ELSE LET c == LongestMatch(a, b, alo, ahi, blo, bhi)
           k == BlockLen(a, b, c[1], c[2], ahi, bhi)
       IN  IF k = 0 THEN 0
           ELSE Matches(a, b, alo, c[1] - 1, blo, c[2] - 1) + k
                  + Matches(a, b, c[1] + k, ahi, c[2] + k, bhi)

\* variant of Ratio: the matches are not counted on both sides
Ratio_Unscaled(matches, length) ==
  IF length = 0 THEN 100 ELSE (100 * matches) \div length

\* SequenceMatcher.ratio(), in hundredths: 2.0 * matches / length, and 1.0
\* when both sequences are empty
Ratio(matches, length) ==
  IF length = 0 THEN 100 ELSE (200 * matches) \div length

\* _calculate_text_similarity, in hundredths
calculate_text_similarity(text1, text2) ==
  IF text1 = <<>> \/ text2 = <<>> THEN 0
  ELSE LET a == strip(lower(text1))
           b == strip(lower(text2))
       IN  Ratio(Matches(a, b, 1, Len(a), 1, Len(b)), Len(a) + Len(b))

\* a caller holds two texts
InitSimilarity ==
  /\ Untouched
  /\ pure \in { [fn |-> "_calculate_text_similarity", called |-> FALSE,
                 text1 |-> t1, text2 |-> t2, similarity |-> 0] :
                t1 \in ComparedTexts, t2 \in ComparedTexts }

call_calculate_text_similarity ==
  /\ ~pure.called
  /\ pure' = [pure EXCEPT !.called = TRUE,
                !.similarity = calculate_text_similarity(pure.text1, pure.text2)]
  /\ UNCHANGED <<nproc, jobs, heap, model, runs, files, db, vec, reply,
                 ops, chunker, dupcheck>>

NextSimilarity == call_calculate_text_similarity

SpecSimilarity == InitSimilarity /\ [][NextSimilarity]_vars

\* ---- QualityValidator.calculate_readability_score ----

MaxKeywords == 3  \* occurrences of the keyword in one scored text
MaxSpecials == 4  \* special characters in one scored text
MaxInserted == 2  \* characters or keywords inserted at once

\* A scored text is one line and one sentence: `plain` times the word
\* "water" and `keywords` times the keyword "troubleshooting", single spaces
\* between the words, `specials` times "#" written after the last word and
\* "." at the end.
PlainCounts == {6, 8, 16, 17}
ScoredTexts ==
  { [plain |-> p, keywords |-> k, specials |-> s] :
      p \in PlainCounts, k \in 0..MaxKeywords, s \in 0..MaxSpecials }

\* text.split()
WordCount(text) == text.plain + text.keywords

\* len(text), which is len(text.strip())
TextLen(text) ==
  5 * text.plain + 15 * text.keywords + (WordCount(text) - 1)
    + text.specials + 1

\* sum(len(word) for word in words)
WordChars(text) == TextLen(text) - (WordCount(text) - 1)

\* len(re.findall(r'[a-zA-Z]', text))
AlphaChars(text) == 5 * text.plain + 15 * text.keywords

\* the text with n more "#"
InsertSpecial(text, n) == [text EXCEPT !.specials = @ + n]

\* the text with n more "troubleshooting"
InsertKeyword(text, n) == [text EXCEPT !.keywords = @ + n]

\* max(0.0, min(1.0, score)), in hundredths
Clamp(score) == IF score < 0 THEN 0 ELSE IF score > 100 THEN 100 ELSE score

\* calculate_readability_score, in hundredths
calculate_readability_score(text) ==
  IF TextLen(text) < MIN_TEXT_LENGTH THEN 0
  ELSE
    LET length == IF TextLen(text) < 100 THEN -20
                  ELSE IF TextLen(text) > 2000 THEN -10 ELSE 0
        word_length == IF WordChars(text) < 3 * WordCount(text) THEN -20
                       ELSE IF WordChars(text) > 8 * WordCount(text) THEN -10
                       ELSE 0
        special == IF 100 * text.specials > 5 * TextLen(text) THEN -30 ELSE 0
        sentence == IF 3 <= WordCount(text) /\ WordCount(text) <= 50
                    THEN 10 ELSE -20
        alpha == IF 2 * AlphaChars(text) < TextLen(text) THEN -20 ELSE 0
        keyword_count == IF text.keywords > 0 THEN 1 ELSE 0
        keyword == IF keyword_count > 0
                   THEN (IF 5 * keyword_count < 20 THEN 5 * keyword_count ELSE 20)
                   ELSE 0
    IN  Clamp(100 + length + word_length + special + sentence + alpha + keyword)

\* a caller holds a text and the same text with special characters or
\* keywords inserted
InitReadability ==
  /\ Untouched
  /\ pure \in { [fn |-> "calculate_readability_score", calls |-> 0,
                 text |-> t, more |-> i, n |-> n, score |-> 0,
                 score_more |-> 0] :
                t \in ScoredTexts, i \in {"special", "keyword"},
                n \in 1..MaxInserted }

\* the text is scored, and then the text with the insertion
call_calculate_readability_score ==
  /\ pure.calls < 2
  /\ pure' =
       IF pure.calls = 0
       THEN [pure EXCEPT !.calls = 1,
               !.score = calculate_readability_score(pure.text)]
       ELSE [pure EXCEPT !.calls = 2,
               !.score_more = calculate_readability_score(
                  IF pure.more = "special"
                  THEN InsertSpecial(pure.text, pure.n)
                  ELSE InsertKeyword(pure.text, pure.n))]
  /\ UNCHANGED <<nproc, jobs, heap, model, runs, files, db, vec, reply,
                 ops, chunker, dupcheck>>

NextReadability == call_calculate_readability_score

SpecReadability == InitReadability /\ [][NextReadability]_vars

\* ---- PDFProcessor._extract_metadata ----

\* A filename or a chunk text is the set of the words that occur in it, in
\* the case they are written in.
FilenameWords == {"whirlpool", "LG", "Samsung", "manual"}
ContentWords == {"whirlpool", "LG", "Samsung", "error", "clean"}

\* str.lower() of every word
LowerWord(word) ==
  CASE word = "LG" -> "lg"
    [] word = "Samsung" -> "samsung"
    [] OTHER -> word

lower_words(text) == { LowerWord(word) : word \in text }

\* str.title()
title(word) ==
  CASE word = "whirlpool" -> "Whirlpool"
    [] word = "lg" -> "Lg"
    [] word = "samsung" -> "Samsung"
    [] word = "ge" -> "Ge"
    [] word = "kenmore" -> "Kenmore"
    [] word = "maytag" -> "Maytag"
    [] word = "bosch" -> "Bosch"
    [] OTHER -> word

manufacturers ==
  <<"whirlpool", "lg", "samsung", "ge", "kenmore", "maytag", "bosch">>

\* the loop over manufacturers from the i-th on: the first that is in the
\* filename or in the content, 'Unknown' when the list is exhausted
RECURSIVE FirstManufacturer(_, _, _)
FirstManufacturer(i, filename_lower, content_lower) ==
  IF i > Len(manufacturers) THEN "Unknown"
  ELSE IF manufacturers[i] \in filename_lower
          \/ manufacturers[i] \in content_lower
  THEN title(manufacturers[i])
  ELSE FirstManufacturer(i + 1, filename_lower, content_lower)

\* the content type the keywords of the content give
ContentTypeOf(content_lower) ==
  IF "error" \in content_lower THEN "troubleshooting"
  ELSE IF "clean" \in content_lower THEN "maintenance"
  ELSE "troubleshooting"

\* _extract_metadata (no word of these texts matches a model pattern)
extract_metadata(filename, content) ==
  [ manufacturer |-> FirstManufacturer(1, lower_words(filename),
                                       lower_words(content)),
    model_series |-> "Unknown",
    content_type |-> ContentTypeOf(lower_words(content)),
    source_manual |-> filename ]

\* a caller holds a filename and a chunk text
InitMetadata ==
  /\ Untouched
  /\ pure \in { [fn |-> "_extract_metadata", called |-> FALSE,
                 filename |-> f, content |-> c, metadata |-> NoneDict] :
                f \in SUBSET FilenameWords, c \in SUBSET ContentWords }

call_extract_metadata ==
  /\ ~pure.called
  /\ pure' = [pure EXCEPT !.called = TRUE,
                !.metadata = extract_metadata(pure.filename, pure.content)]
  /\ UNCHANGED <<nproc, jobs, heap, model, runs, files, db, vec, reply,
                 ops, chunker, dupcheck>>

NextMetadata == call_extract_metadata

SpecMetadata == InitMetadata /\ [][NextMetadata]_vars

\* ---- properties ----

Terminal(job) == job.status \in {"completed", "failed"}

\* run r returns in this step
Ends(r) == runs[r].pc # "done" /\ runs'[r].pc = "done"

\* run r leaves the queue in this step: lines 243-251 are executed
Begins(r) == runs[r].pc = "begin" /\ runs'[r].pc # "begin"

\* C1: once a job is completed or failed, its status, progress_percent,
\* completed_at and error_details never change again (delete_job only removes
\* the registry entry), a repeated process_pdf_file with the same job id
\* included, and a read of a registered terminal job returns the same snapshot
C1_TerminalJobFrozen ==
  [][ /\ \A o \in 1..Len(heap) :
           Terminal(heap[o]) =>
             /\ heap'[o].status = heap[o].status
             /\ heap'[o].progress_percent = heap[o].progress_percent
             /\ heap'[o].completed_at = heap[o].completed_at
             /\ heap'[o].error_details = heap[o].error_details
      /\ \A p \in Procs, j \in JobIds :
           (jobs[p][j] # 0 /\ jobs'[p][j] # 0 /\ Terminal(heap[jobs[p][j]]))
             => get_job_status(jobs[p], j)' = get_job_status(jobs[p], j) ]_vars

\* C2: when a stage of process_pdf_file raises, the run ends with the job
\* failed, error_details the exception's message and completed_at set, and
\* the call returns False
C2_RaiseFailsJob ==
  [][ \A r \in Runs :
        (Ends(r) /\ runs'[r].raised # None) =>
          /\ heap'[runs'[r].job].status = "failed"
          /\ heap'[runs'[r].job].error_details = runs'[r].raised
          /\ heap'[runs'[r].job].completed_at # 0
          /\ runs'[r].result = "False" ]_vars

\* a run whose embedding step raised has ended with its job failed
C2_Witness ==
  \E r \in Runs :
    /\ runs[r].pc = "done"
    /\ runs[r].raised = "encode failed"
    /\ runs[r].result = "False"
    /\ heap[runs[r].job].status = "failed"
    /\ heap[runs[r].job].error_details = "encode failed"
    /\ heap[runs[r].job].completed_at # 0

\* C3: a job's progress_percent never decreases and stays within 0..100
C3_ProgressMonotone ==
  [][ \A o \in 1..Len(heap) :
        /\ heap'[o].progress_percent >= heap[o].progress_percent
        /\ heap'[o].progress_percent \in 0..10000 ]_vars

\* C4: a status request for the job id an accepted upload returned finds the
\* job: it is never answered 404 "Job not found"
C4_StatusFindsUploadedJob ==
  [][ (reply' # reply /\ reply'.job_id <= nproc) => reply'.code = 200 ]_vars

\* C5: process_pdf_file with a job id the registry knows works on the
\* registered object and replaces nothing; it creates and registers a new job
\* only when the id is unknown; a registered object carries the id it is
\* registered under
C5_KnownIdReusesJob ==
  [][ /\ \A r \in Runs :
           Begins(r) =>
             LET known == jobs[runs[r].proc][runs[r].job_id]
             IN IF known # 0
                THEN /\ runs'[r].job = known
                     /\ jobs' = jobs
                     /\ Len(heap') = Len(heap)
                     /\ heap'[known].created_at = heap[known].created_at
                     /\ heap'[known].filename = heap[known].filename
                ELSE /\ runs'[r].job = Len(heap) + 1
                     /\ Len(heap') = Len(heap) + 1
                     /\ jobs'[runs[r].proc][runs[r].job_id] = Len(heap) + 1
      /\ \A p \in Procs, j \in JobIds :
           jobs'[p][j] # 0 => heap'[jobs'[p][j]].job_id = j ]_vars

\* two invocations with the same job id on one processor share the job object
C5_Witness ==
  \E r1 \in Runs, r2 \in Runs :
    /\ r1 # r2
    /\ runs[r1].job # 0
    /\ runs[r1].job = runs[r2].job
    /\ runs[r1].proc = runs[r2].proc
    /\ runs[r1].job_id = runs[r2].job_id
    /\ jobs[runs[r1].proc][runs[r1].job_id] = runs[r1].job

\* the id store_content_chunk gives the record of run r's n-th chunk
ContentId(r, n) == Stamp(r, 10 + n)

Stored(id) == \E row \in db : row.id = id

NoText(r) == \E n \in 1..Len(runs[r].extracted) : runs[r].extracted[n] = "no_text"

NoReadableText == "No readable text found in PDF"

C6_Pages ==
  \A r \in Runs :
    LET run == runs[r]
    IN /\ (\E n \in 1..Len(run.extracted) : run.extracted[n] = "readable")
            => run.raised # NoReadableText
       /\ \A c \in 1..Len(run.all_chunks) :
            /\ run.all_chunks[c].page_number \in 1..Len(run.extracted)
            /\ run.extracted[run.all_chunks[c].page_number] = "readable"
       /\ \A n \in 1..Len(run.calls) :
            Stored(ContentId(r, n)) =>
              /\ get_content_by_id(ContentId(r, n)).page_reference
                   = run.all_chunks[n].page_number
              /\ run.extracted[run.all_chunks[n].page_number] = "readable"
       /\ (run.pc = "done" /\ run.raised = None) => run.result = "True"

C7_NoReadable ==
  \A r \in Runs :
    ( /\ runs[r].extracted # <<>>
      /\ \A n \in 1..Len(runs[r].extracted) : runs[r].extracted[n] # "readable" )
    => /\ runs[r].pc = "done"
       /\ runs[r].raised = NoReadableText
       /\ runs[r].result = "False"
       /\ runs[r].calls = <<>>
       /\ \A row \in db : row.id \div 100 # r

\* C7: when no page yields readable text, extraction raises "No readable
\* text found in PDF", the job ends failed with that message as
\* error_details, and store_content_chunk is never called for the run
C7_NoTextFailsJob ==
  /\ []C7_NoReadable
  /\ [][ \A r \in Runs :
           (Ends(r) /\ runs'[r].raised = NoReadableText) =>
             /\ heap'[runs'[r].job].status = "failed"
             /\ heap'[runs'[r].job].error_details = NoReadableText ]_vars

\* a document whose only text is below MIN_TEXT_LENGTH has failed its job
C7_Witness ==
  \E r \in Runs :
    /\ runs[r].pc = "done"
    /\ \E n \in 1..Len(runs[r].extracted) : runs[r].extracted[n] = "too_short"
    /\ runs[r].raised = NoReadableText
    /\ heap[runs[r].job].status = "failed"
    /\ heap[runs[r].job].error_details = NoReadableText

\* run r scored every chunk of its document and rejected each of them
AllRejected(r) ==
  /\ runs[r].all_chunks # <<>>
  /\ Len(runs[r].calls) = Len(runs[r].all_chunks)
  /\ \A n \in 1..Len(runs[r].calls) : runs[r].calls[n].score < MIN_READABILITY_SCORE

\* C8: a chunk scored below MIN_READABILITY_SCORE is never passed to
\* store_content_chunk and never stored; rejecting it raises nothing, and a
\* run that rejected every chunk still ends completed; every stored record
\* has a confidence score of at least MIN_READABILITY_SCORE
C8_LowScoreNeverStored ==
  /\ \A row \in db : row.confidence_score >= MIN_READABILITY_SCORE
  /\ \A r \in Runs :
       /\ \A n \in 1..Len(runs[r].calls) :
            runs[r].calls[n].score < MIN_READABILITY_SCORE =>
              /\ ~runs[r].calls[n].passed
              /\ ~Stored(ContentId(r, n))
              /\ (n = Len(runs[r].calls) /\ runs[r].pc = "done")
                   => runs[r].raised \in {None, "encode failed"}
       /\ (AllRejected(r) /\ runs[r].pc = "done") =>
            /\ runs[r].raised = None
            /\ runs[r].result = "True"
            /\ runs[r].processed_count = 0

\* a run that rejected every chunk has ended with its job completed
C8_Witness ==
  \E r \in Runs :
    /\ runs[r].pc = "done"
    /\ AllRejected(r)
    /\ runs[r].result = "True"
    /\ heap[runs[r].job].status = "completed"
    /\ heap[runs[r].job].progress_percent = 10000

\* the structured write failed for run r's n-th chunk
WriteFailed(r, n) == runs[r].calls[n].passed /\ ~runs[r].calls[n].db_ok

\* C9: a failed structured write skips the chunk and the run goes on with the
\* remaining chunks: a run fails on the structured store's error only when
\* it tried every chunk and every write it made failed
C9_WriteFailureSkipsChunk ==
  \A r \in Runs :
    (runs[r].pc = "done" /\ runs[r].raised = "database error") =>
      /\ Len(runs[r].calls) = Len(runs[r].all_chunks)
      /\ \A n \in 1..Len(runs[r].calls) :
           runs[r].calls[n].passed => WriteFailed(r, n)

\* the structured write of run r's n-th chunk succeeded and the vector add
\* raised
VectorAddFailed(r, n) ==
  /\ runs[r].calls[n].passed
  /\ runs[r].calls[n].db_ok
  /\ ~runs[r].calls[n].vec_ok

\* C10: when the vector add raises for a chunk, the structured record is
\* committed and get_content_by_id returns it, store_content_chunk returns
\* the content id, and the run does not fail because of it
C10_VectorFailureKeepsRecord ==
  \A r \in Runs :
    \A n \in 1..Len(runs[r].calls) :
      VectorAddFailed(r, n) =>
        /\ Stored(ContentId(r, n))
        /\ get_content_by_id(ContentId(r, n)).id = ContentId(r, n)
        /\ ContentId(r, n) \notin vec
        /\ runs[r].calls[n].returned = ContentId(r, n)
        /\ (n = Len(runs[r].calls) /\ runs[r].pc = "done")
             => runs[r].raised \in {None, "encode failed"}

\* a run whose vector add raised for a chunk has ended with its job completed
C10_Witness ==
  \E r \in Runs :
    /\ runs[r].pc = "done"
    /\ runs[r].result = "True"
    /\ heap[runs[r].job].status = "completed"
    /\ \E n \in 1..Len(runs[r].calls) :
         VectorAddFailed(r, n) /\ Stored(ContentId(r, n))

\* C19: every chunk _chunk_text returns is at most MAX_CHUNK_SIZE +
\* CHUNK_OVERLAP characters long (content and chunk_size), so a text longer
\* than that is split into more than one chunk
C19_ChunkSizeBounded ==
  chunker.called =>
    /\ \A c \in 1..Len(chunker.chunks) :
         chunker.chunks[c].chunk_size <= MAX_CHUNK_SIZE + CHUNK_OVERLAP
    /\ CleanedLen(chunker.paras) > MAX_CHUNK_SIZE + CHUNK_OVERLAP
         => Len(chunker.chunks) > 1

\* C20: no chunk _chunk_text returns is shorter than MIN_TEXT_LENGTH, at a
\* split or as the final buffer, and a cleaned text that is empty or shorter
\* than MIN_TEXT_LENGTH gives the empty list
C20_NoShortChunk ==
  chunker.called =>
    /\ \A c \in 1..Len(chunker.chunks) :
         chunker.chunks[c].chunk_size >= MIN_TEXT_LENGTH
    /\ CleanedLen(chunker.paras) < MIN_TEXT_LENGTH => chunker.chunks = <<>>

\* the records the duplicate query returned
Recent == 1..Min(Len(dupcheck.rows), RecentLimit)

\* the places of the result where the pair of records i and j is reported,
\* in either order
Reports(i, j) ==
  { k \in 1..Len(dupcheck.duplicates) :
      {dupcheck.duplicates[k][1], dupcheck.duplicates[k][2]}
        = {dupcheck.rows[i], dupcheck.rows[j]} }

\* C17: check_for_duplicates returns, for the most recent records the query
\* gives, exactly the pairs whose similarity is at least
\* DUPLICATE_SIMILARITY_THRESHOLD: each such pair once, as (id, id, score),
\* no record with itself, and nothing else
C17_DuplicatePairs ==
  (dupcheck.called /\ dupcheck.db_ok) =>
    /\ \A i \in Recent, j \in Recent :
         i < j =>
           Cardinality(Reports(i, j)) =
             IF dupcheck.sim[<<i, j>>] >= DUPLICATE_SIMILARITY_THRESHOLD
             THEN 1 ELSE 0
    /\ \A k \in 1..Len(dupcheck.duplicates) :
         \E i \in Recent, j \in Recent :
           /\ i < j
           /\ dupcheck.duplicates[k]
                = <<dupcheck.rows[i], dupcheck.rows[j], dupcheck.sim[<<i, j>>]>>
           /\ dupcheck.rows[i] # dupcheck.rows[j]

\* the store held more records than the query returns, and a pair at the
\* threshold was reported while a pair below it was not
C17_Witness ==
  /\ dupcheck.called
  /\ dupcheck.db_ok
  /\ Len(dupcheck.rows) > RecentLimit
  /\ \E i \in Recent, j \in Recent :
       /\ i < j
       /\ dupcheck.sim[<<i, j>>] = DUPLICATE_SIMILARITY_THRESHOLD
       /\ Reports(i, j) # {}
  /\ \E i \in Recent, j \in Recent :
       i < j /\ dupcheck.sim[<<i, j>>] = 89 /\ Reports(i, j) = {}

\* C18: the duplicate pass is advisory: the step of process_pdf_file that
\* runs check_for_duplicates leaves the structured store and the vector store
\* as they were, and whether the pass's query succeeds or raises the call
\* returns True with the job completed at progress 100
C18_DuplicatePassAdvisory ==
  [][ \A r \in Runs :
        (runs[r].pc = "dups" /\ runs'[r] # runs[r]) =>
          /\ db' = db
          /\ vec' = vec
          /\ runs'[r].pc = "done"
          /\ runs'[r].raised = None
          /\ runs'[r].result = "True"
          /\ heap'[runs'[r].job].status = "completed"
          /\ heap'[runs'[r].job].progress_percent = 10000 ]_vars

\* a run that stored records went through the duplicate pass and completed
C18_Witness ==
  \E r \in Runs :
    /\ runs[r].pc = "done"
    /\ runs[r].result = "True"
    /\ runs[r].processed_count >= 1
    /\ \E n \in 1..Len(runs[r].calls) : Stored(ContentId(r, n))
    /\ heap[runs[r].job].status = "completed"

\* the step is a search_content call
Searched == reply' # reply /\ reply'.op = "search_content"

\* store_content_chunk call o has returned with its row committed and its
\* vector add failed, and the row is still there without a vector entry
VectorEntryMissing(o) ==
  /\ ops[o].call = "store_content_chunk"
  /\ ops[o].pc = "done"
  /\ ops[o].db_ok
  /\ ~ops[o].vec_ok
  /\ ops[o].id \notin vec
  /\ Stored(ops[o].id)

\* C11: after a chunk's vector add has failed, a search without filters whose
\* query occurs in the record's content and whose max_results is not below
\* the number of records returns the record (searches in which the database
\* raised set aside)
C11_RecordWithoutVectorFound ==
  [][ ( /\ Searched
        /\ reply'.manufacturer = None
        /\ reply'.content_type = None
        /\ reply'.min_confidence = 0
        /\ reply'.max_results >= Cardinality(db)
        /\ reply'.path \in {"vector", "fallback"} )
      => \A o \in 1..Len(ops) :
           (VectorEntryMissing(o) /\ reply'.query \in ops[o].kind.content)
             => \E res \in reply'.results : res.id = ops[o].id ]_vars

\* the record satisfies the filters of the search the reply answers
PassesFilters(res) ==
  /\ reply.manufacturer = None \/ Contains(res.manufacturer, reply.manufacturer)
  /\ reply.content_type = None \/ res.content_type = reply.content_type
  /\ res.confidence_score >= reply.min_confidence

\* C12: when the vector query raises or returns a status other than 200, the
\* search returns only records whose content contains the query and that
\* satisfy the manufacturer, content-type and minimum-confidence filters,
\* each with similarity_score 0.5
C12_FallbackMatchesQuery ==
  (reply.op = "search_content" /\ reply.vector \in {"raised", "non200"}) =>
    \A res \in reply.results :
      /\ reply.query \in res.content
      /\ PassesFilters(res)
      /\ res.similarity_score = 50

\* C13: search_content never raises: when the vector store or the database
\* raises on the vector path the fallback's result is returned, and when the
\* fallback fails too the result is empty with total_results 0
C13_SearchNeverRaises ==
  reply.op = "search_content" =>
    /\ ~reply.raised
    /\ reply.vector # "ok" => reply.path \in {"fallback", "fallback_failed"}
    /\ reply.path = "fallback" =>
         \A res \in reply.results : res.similarity_score = 50
    /\ reply.path = "fallback_failed" =>
         reply.results = {} /\ reply.total_results = 0
    /\ reply.total_results = Cardinality(reply.results)

\* the vector query raised, then the fallback's database query raised, with
\* records in the store
C13_Witness ==
  /\ reply.op = "search_content"
  /\ reply.vector = "raised"
  /\ reply.path = "fallback_failed"
  /\ reply.results = {}
  /\ db # {}

\* C14: on the vector path and on the fallback path alike, every record a
\* search returns matches the manufacturer and content-type filters and has
\* confidence_score >= min_confidence
C14_FiltersOnBothPaths ==
  reply.op = "search_content" => \A res \in reply.results : PassesFilters(res)

\* C15: delete_content returns True exactly when it deleted a row: when the
\* delete raises or matches no row it returns False without calling the
\* vector store, and when the vector delete fails it still returns True and
\* the row stays deleted
C15_DeleteResult ==
  \A o \in 1..Len(ops) :
    ops[o].call = "delete_content" =>
      /\ ops[o].pc = "embedding" => ops[o].deleted
      /\ ops[o].pc = "done" =>
           /\ ops[o].result \in {"True", "False"}
           /\ ops[o].result = "True" <=> ops[o].deleted
           /\ ops[o].result = "False" => ~ops[o].vec_called
           /\ ops[o].result = "True" =>
                ops[o].vec_called /\ ~Stored(ops[o].id)

\* a delete whose vector delete failed returned True: the row is gone and
\* the vector entry is still there
C15_Witness ==
  \E o \in 1..Len(ops) :
    /\ ops[o].call = "delete_content"
    /\ ops[o].pc = "done"
    /\ ops[o].result = "True"
    /\ ~ops[o].vec_ok
    /\ ops[o].id \in vec
    /\ ~Stored(ops[o].id)

\* C16: with a vector store that never fails, once every store_content_chunk
\* and delete_content call has returned, every row has its vector entry and
\* every vector entry has its row
C16_StoresAgree ==
  (\A o \in 1..Len(ops) :
     ops[o].pc = "done" /\ (ops[o].vec_called => ops[o].vec_ok))
  => /\ \A row \in db : row.id \in vec
     /\ \A id \in vec : Stored(id)

\* C21: text normalization is idempotent: clean_text applied to what
\* clean_text returned gives the same text again
C21_CleanTextIdempotent ==
  pure.calls = 2 => pure.again = pure.cleaned

\* C22 as stated: _calculate_text_similarity(a, a) is 1.0 for every text a
C22_Original ==
  (pure.called /\ pure.text1 = pure.text2) => pure.similarity = 100

\* C22: _calculate_text_similarity(a, a) is 1.0 for every text a that is not
\* empty; for the empty text it is 0.0
C22_SelfSimilarity ==
  (pure.called /\ pure.text1 = pure.text2) =>
     pure.similarity = IF pure.text1 = <<>> THEN 0 ELSE 100

\* a text with an upper-case letter and a space at its end was compared with
\* itself
C22_Witness ==
  /\ pure.called
  /\ pure.text1 = <<"A", "b", " ">>
  /\ pure.text2 = pure.text1
  /\ pure.similarity = 100

\* C23: the readability score is monotone in its signals: special characters
\* inserted into a text that had none never give a higher score, keywords
\* inserted never give a lower score, and every score lies in [0, 1]
C23_ScoreMonotone ==
  pure.calls = 2 =>
    /\ (pure.more = "special" /\ pure.text.specials = 0)
         => pure.score_more <= pure.score
    /\ pure.more = "keyword" => pure.score_more >= pure.score
    /\ pure.score \in 0..100 /\ pure.score_more \in 0..100

\* the known brands that occur, case-insensitively, in a filename or text
BrandsIn(text) ==
  { i \in 1..Len(manufacturers) : manufacturers[i] \in lower_words(text) }

\* the first of a non-empty set of brands, as the metadata name it
FirstOf(brands) ==
  title(manufacturers[CHOOSE i \in brands : \A k \in brands : i <= k])

\* C24: _extract_metadata takes the manufacturer from the filename first: the
\* first known brand in the filename; only when the filename holds none, the
\* first known brand in the chunk text; 'Unknown' when neither holds one
C24_FilenameFirst ==
  pure.called =>
    pure.metadata.manufacturer =
      IF BrandsIn(pure.filename) # {} THEN FirstOf(BrandsIn(pure.filename))
      ELSE IF BrandsIn(pure.content) # {} THEN FirstOf(BrandsIn(pure.content))
      ELSE "Unknown"

\* what holds of the unlink attempt of a run in every state: it is made by
\* the runs that return True and by no other
C25_UnlinkTried ==
  \A r \in Runs :
    /\ runs[r].unlink # None => runs[r].pc = "done" /\ runs[r].result = "True"
    /\ (runs[r].pc = "done" /\ runs[r].result = "True")
         => runs[r].unlink \in {"ok", "failed"}

\* C25: a successful run makes one attempt to delete the source document, in
\* the step that follows the duplicate pass and marks the job completed; when
\* the unlink succeeds the file is gone, when it fails the file stays and the
\* job still ends completed with progress 100
C25_SourceDeleted ==
  /\ []C25_UnlinkTried
  /\ [][ \A r \in Runs :
           /\ runs[r].unlink # None => runs'[r].unlink = runs[r].unlink
           /\ (Ends(r) /\ runs'[r].result = "True") =>
                /\ runs[r].pc = "dups"
                /\ runs[r].unlink = None
                /\ runs'[r].unlink = "ok" => runs[r].file_path \notin files'
                /\ runs'[r].unlink = "failed" => files' = files
                /\ heap'[runs'[r].job].status = "completed"
                /\ heap'[runs'[r].job].progress_percent = 10000 ]_vars

\* a run whose unlink failed has ended with its job completed and the source
\* document still on disk
C25_Witness ==
  \E r \in Runs :
    /\ runs[r].pc = "done"
    /\ runs[r].unlink = "failed"
    /\ runs[r].file_path \in files
    /\ runs[r].result = "True"
    /\ heap[runs[r].job].status = "completed"
    /\ heap[runs[r].job].progress_percent = 10000

\* the batches of run r: ceil(len(all_chunks) / batch_size)
Batches(r) ==
  (Len(runs[r].all_chunks) + EMBEDDING_BATCH_SIZE - 1) \div EMBEDDING_BATCH_SIZE

\* what holds of the calls of a run in every state: each chunk is scored and
\* stored at most once and in order, each batch is encoded at most once, and
\* a call that raised is the last call of a run that has ended
C26_CallsOnce ==
  \A r \in Runs :
    LET run == runs[r]
    IN /\ Len(run.calls) <= Len(run.all_chunks)
       /\ run.encoded <= Batches(r)
       /\ run.encoded <= (Len(run.calls) \div EMBEDDING_BATCH_SIZE) + 1
       /\ \A n \in 1..Len(run.calls) :
            WriteFailed(r, n) =>
              /\ n = Len(run.calls)
              /\ run.pc = "done"
              /\ run.raised = "database error"
       /\ run.raised = "encode failed" =>
            /\ run.pc = "done"
            /\ Len(run.calls) = (run.encoded - 1) * EMBEDDING_BATCH_SIZE
       /\ run.raised # None => run.pc = "done" /\ run.result = "False"

\* C26: within one run nothing is retried: extraction happens once, a batch
\* is encoded at most once, a chunk is passed to store_content_chunk at most
\* once, the run ends at the first call that raises and does nothing after it
C26_NoRetry ==
  /\ []C26_CallsOnce
  /\ [][ \A r \in Runs :
           /\ runs[r].pc = "done" => runs'[r] = runs[r]
           /\ runs[r].pc \notin {"new", "begin"} =>
                /\ runs'[r].pc \notin {"new", "begin"}
                /\ runs'[r].extracted = runs[r].extracted
                /\ runs'[r].all_chunks = runs[r].all_chunks
           /\ Len(runs'[r].calls) <= Len(runs[r].calls) + 1
           /\ runs'[r].encoded <= runs[r].encoded + 1
           /\ SubSeq(runs'[r].calls, 1, Len(runs[r].calls)) = runs[r].calls
         ]_vars

\* a run with two batches ended at the failed write of a chunk of its first
\* batch: the write was not tried again, and the second batch was neither
\* encoded nor stored
C26_Witness ==
  \E r \in Runs :
    /\ runs[r].pc = "done"
    /\ Batches(r) = 2
    /\ Len(runs[r].calls) \in 1..EMBEDDING_BATCH_SIZE
    /\ WriteFailed(r, Len(runs[r].calls))
    /\ runs[r].encoded = 1
    /\ runs[r].raised = "database error"
    /\ heap[runs[r].job].status = "failed"

\* C27: in every state of every job, completed_at is set exactly when the
\* status is completed or failed and error_details is set exactly when the
\* status is failed, also while and after a job that had ended is processed
\* again under the same job id
C27_JobFieldsConsistent ==
  \A o \in 1..Len(heap) :
    /\ heap[o].completed_at # 0 <=> Terminal(heap[o])
    /\ heap[o].error_details # None <=> heap[o].status = "failed"

\* the step is a step of run r after it has found or registered its job
Continues(r) == runs[r].pc \notin {"new", "begin"} /\ runs'[r] # runs[r]

\* C28: delete_job of a known id removes the registry entry, returns True and
\* touches neither the run nor the stores nor the job object; a run whose job
\* was deleted goes on, never puts the job back into the registry, and writes
\* its terminal status to the job object, which get_job_status no longer
\* finds; delete_job of an unknown id returns False and changes nothing
C28_DeleteDetachesJob ==
  [][ /\ (reply' # reply /\ reply'.op = "delete_job") =>
           LET p == reply'.proc
               j == reply'.job_id
           IN /\ reply'.result = IF jobs[p][j] # 0 THEN "True" ELSE "False"
              /\ jobs'[p][j] = 0
              /\ \A q \in Procs, k \in JobIds :
                   <<q, k>> # <<p, j>> => jobs'[q][k] = jobs[q][k]
              /\ heap' = heap
              /\ runs' = runs
              /\ db' = db /\ vec' = vec /\ files' = files
      /\ \A r \in Runs :
           Continues(r) =>
             /\ jobs' = jobs
             /\ Ends(r) =>
                  /\ Terminal(heap'[runs'[r].job])
                  /\ jobs[runs[r].proc][runs[r].job_id] = 0 =>
                       get_job_status(jobs'[runs[r].proc], runs[r].job_id)
                         = NoneDict ]_vars

\* delete_job has returned True for the job of a run that is in progress: the
\* run is at a store_content_chunk call, its job object is still being
\* processed, and get_job_status no longer finds the job id
C28_Witness ==
  \E r \in Runs :
    /\ runs[r].pc = "store"
    /\ reply = [op |-> "delete_job", proc |-> runs[r].proc,
                job_id |-> runs[r].job_id, result |-> "True"]
    /\ jobs[runs[r].proc][runs[r].job_id] = 0
    /\ get_job_status(jobs[runs[r].proc], runs[r].job_id) = NoneDict
    /\ heap[runs[r].job].status = "processing"

\* the runs that work on job object o
RunsOn(o) == { r \in Runs : runs[r].job = o }

\* when every run that works on a job has ended, the job is completed or
\* failed
C29_EndedJobsTerminal ==
  \A o \in 1..Len(heap) :
    (RunsOn(o) # {} /\ \A r \in RunsOn(o) : runs[r].pc = "done")
      => Terminal(heap[o])

\* C29: when every collaborator call returns or raises, every invocation of
\* process_pdf_file ends, and it ends with its job completed or failed: no
\* job is left queued or processing once its runs have ended
C29_RunsTerminate ==
  /\ []C29_EndedJobsTerminal
  /\ [][ \A r \in Runs : Ends(r) => Terminal(heap'[runs'[r].job]) ]_vars
  /\ \A r \in Runs : (runs[r].pc # "new") ~> (runs[r].pc = "done")

\* every invocation has ended, one with its job completed and one with its
\* job failed
C29_Witness ==
  /\ \A r \in Runs : runs[r].pc = "done"
  /\ \E r \in Runs : heap[runs[r].job].status = "completed"
  /\ \E r \in Runs : heap[runs[r].job].status = "failed"

\* what holds of a run that has failed, in every state: it made no unlink
\* attempt, and every record it stored is in the structured store
C30_FailedRunKeeps ==
  \A r \in Runs :
    (runs[r].pc = "done" /\ runs[r].result = "False") =>
      /\ runs[r].unlink = None
      /\ \A n \in 1..Len(runs[r].calls) :
           (runs[r].calls[n].passed /\ runs[r].calls[n].db_ok)
             => Stored(ContentId(r, n))

\* C30: a run that fails removes nothing: the step in which it fails takes
\* no record out of the structured store or the vector store and leaves the
\* files on disk as they are, and the records the run stored before remain
C30_FailureRemovesNothing ==
  /\ []C30_FailedRunKeeps
  /\ [][ \A r \in Runs :
           (Ends(r) /\ runs'[r].result = "False") =>
             /\ db \subseteq db'
             /\ vec \subseteq vec'
             /\ files' = files ]_vars

\* a run failed in its second batch after it had stored a record of its
\* first: the record is in both stores and the source document is on disk
C30_Witness ==
  \E r \in Runs :
    /\ runs[r].pc = "done"
    /\ runs[r].result = "False"
    /\ runs[r].processed_count >= 1
    /\ runs[r].file_path \in files
    /\ \E n \in 1..Len(runs[r].calls) :
         /\ Stored(ContentId(r, n))
         /\ ContentId(r, n) \in vec
         /\ n < Len(runs[r].calls)
    /\ heap[runs[r].job].status = "failed"

====
